---- MODULE Spec2Model ----
(***************************************************************************)
(* The mirror store of posts and its offset ledger, as written by          *)
(* unauthed_createPost and unauthed_deletePost                             *)
(* (packages/frontpage/lib/data/db/post.ts).                               *)
(*                                                                         *)
(* One logical consumer calls the two functions, one call at a time.  A    *)
(* call is a sequence of awaited steps; each step is one action, so that   *)
(* the committed tables (what any other reader of the database sees) are   *)
(* visible between the steps of a transaction.                             *)
(*                                                                         *)
(* The read queries of the same file (getFrontpagePosts, getUserPosts,     *)
(* getPost) and getTotalSubmissions are operators over the tables; the     *)
(* specifications SpecRead, SpecComments and SpecRank walk the stores they *)
(* are read from.  SpecDid is the DidCollections component, SpecRetry the  *)
(* consumer that invokes a failed event again.                             *)
(***************************************************************************)
EXTENDS Integers, Sequences, FiniteSets, Bags, TLC

\* Offsets the feed may deliver: 1 .. MaxOffset.
MaxOffset == 3

Offsets == 1..MaxOffset

DIDs == {"did:plc:a", "did:plc:b"}

RKeys == {"r1", "r2"}

\* The record (atprotoPost.Post) and the cid of the Create event the feed
\* holds at offset o: an offset names one event, so its content is fixed.
ContentAt(o) ==
  [cid |-> << "cid", o >>,
   post |-> [title |-> << "title", o >>, url |-> << "url", o >>,
             createdAt |-> o]]

NoEvent == [type |-> "none"]

\* CreatePostInput: what the consumer hands to unauthed_createPost.
CreateEvents ==
  { [type |-> "create", post |-> ContentAt(o).post, authorDid |-> d,
     rkey |-> r, cid |-> ContentAt(o).cid, offset |-> o] :
      d \in DIDs, r \in RKeys, o \in Offsets }

\* A Delete event of the feed.  DeletePostInput carries rkey and offset only;
\* authorDid is the repository the event came from, which the function is
\* not given.
DeleteEvents ==
  { [type |-> "delete", authorDid |-> d, rkey |-> r, offset |-> o] :
      d \in DIDs, r \in RKeys, o \in Offsets }

VARIABLES
  posts,            \* committed rows of schema.Post, in insertion order
  consumedOffsets,  \* committed rows of schema.ConsumedOffset (a bag)
  txPosts,          \* the open transaction's view of schema.Post
  txOffsets,        \* the open transaction's view of schema.ConsumedOffset
  pc,               \* where the consumer's current call stands
  cur,              \* the event of the current call
  posts0,           \* schema.Post as committed when the call began
  offsets0,         \* schema.ConsumedOffset as committed when the call began
  outcome,          \* how the call ended, and at which step it failed
  applied,          \* the events whose transaction committed, each with
                    \* the number of Post rows its commit left
  webhookCalls,     \* the webhook requests the current call has issued
  votes,            \* committed rows of schema.PostVote (a bag)
  comments,         \* committed rows of schema.Comment (a bag)
  user,             \* the DID of the session getUser() finds, or "none"
  dc,               \* where a DidCollections call stands, and what it did
  failures          \* the storage failures so far (retrying consumer)

vars == << posts, consumedOffsets, txPosts, txOffsets, pc, cur, posts0,
           offsets0, outcome, applied, webhookCalls, votes, comments, user,
           dc, failures >>

\* What the consumer's two functions neither read nor write.
otherVars == << votes, comments, user, dc, failures >>

\* What belongs to a call of the consumer, posts apart.
callVars == << consumedOffsets, txPosts, txOffsets, pc, cur, posts0,
               offsets0, outcome, applied, webhookCalls >>

----------------------------------------------------------------------------
\* The tables.

\* unique (authorDid, rkey) on schema.Post
PostKeyTaken(tab, authorDid, rkey) ==
  \E i \in DOMAIN tab : tab[i].authorDid = authorDid /\ tab[i].rkey = rkey

\* schema.ConsumedOffset.offset is the primary key
OffsetTaken(tab, offset) ==
  BagIn([offset |-> offset], tab)

\* The row tx.insert(schema.Post).values({...}) writes; status takes its
\* default.
PostRow(tab, in) ==
  [id |-> Len(tab) + 1, rkey |-> in.rkey, cid |-> in.cid,
   authorDid |-> in.authorDid, title |-> in.post.title, url |-> in.post.url,
   createdAt |-> in.post.createdAt, status |-> "live"]

\* An insert that replaces the row of the same key instead of failing.
TxInsertPost_Upsert(tab, in) ==
  IF PostKeyTaken(tab, in.authorDid, in.rkey)
  THEN [error |-> "none",
        rows |-> [i \in DOMAIN tab |->
                    IF tab[i].authorDid = in.authorDid /\ tab[i].rkey = in.rkey
                    THEN [PostRow(tab, in) EXCEPT !.id = tab[i].id]
                    ELSE tab[i]]]
  ELSE [error |-> "none", rows |-> Append(tab, PostRow(tab, in))]

\* An insert that passes over a held key (on conflict do nothing).
TxInsertPost_IgnoreConflict(tab, in) ==
  IF PostKeyTaken(tab, in.authorDid, in.rkey)
  THEN [error |-> "none", rows |-> tab]
  ELSE [error |-> "none", rows |-> Append(tab, PostRow(tab, in))]

\* await tx.insert(schema.Post).values({...})
TxInsertPost(tab, in) ==
  IF PostKeyTaken(tab, in.authorDid, in.rkey)
  THEN [error |-> "DuplicateKey", rows |-> tab]
  ELSE [error |-> "none", rows |-> Append(tab, PostRow(tab, in))]

\* The insert left out: nothing is written and nothing fails.
TxInsertOffset_Skip(tab, offset) ==
  [error |-> "none", rows |-> tab]

\* An insert that passes over a recorded offset (on conflict do nothing).
TxInsertOffset_IgnoreConflict(tab, offset) ==
  IF OffsetTaken(tab, offset)
  THEN [error |-> "none", rows |-> tab]
  ELSE [error |-> "none", rows |-> tab (+) SetToBag({[offset |-> offset]})]

\* await tx.insert(schema.ConsumedOffset).values({ offset })
TxInsertOffset(tab, offset) ==
  IF OffsetTaken(tab, offset)
  THEN [error |-> "AlreadyConsumed", rows |-> tab]
  ELSE [error |-> "none", rows |-> tab (+) SetToBag({[offset |-> offset]})]

RECURSIVE RemoveRKey(_, _)
RemoveRKey(tab, rkey) ==
  IF tab = << >> THEN << >>
  ELSE IF Head(tab).rkey = rkey THEN RemoveRKey(Tail(tab), rkey)
       ELSE << Head(tab) >> \o RemoveRKey(Tail(tab), rkey)

\* A physical delete of the matching rows.
TxDeletePost_Remove(tab, rkey) ==
  [error |-> "none", rows |-> RemoveRKey(tab, rkey)]

\* An update that fails when it matches no live row.
TxDeletePost_NotFound(tab, rkey) ==
  IF \E i \in DOMAIN tab : tab[i].rkey = rkey /\ tab[i].status = "live"
  THEN [error |-> "none",
        rows |-> [i \in DOMAIN tab |->
                    IF tab[i].rkey = rkey
                    THEN [tab[i] EXCEPT !.status = "deleted"] ELSE tab[i]]]
  ELSE [error |-> "NotFound", rows |-> tab]

\* await tx.update(schema.Post).set({ status: "deleted" })
\*         .where(eq(schema.Post.rkey, rkey))
TxDeletePost(tab, rkey) ==
  [error |-> "none",
   rows |-> [i \in DOMAIN tab |->
               IF tab[i].rkey = rkey
               THEN [tab[i] EXCEPT !.status = "deleted"] ELSE tab[i]]]

\* The statements ran outside the transaction: what they wrote stays.
TxAbort_Keep(committed, working) == working

\* db.transaction: the callback rejects, the transaction rolls back.
TxAbort(committed, working) == committed

\* db.transaction: the callback resolves, the transaction commits.
TxCommit(committed, working) == working

\* No DidCollections call in progress.
DcIdle == [pc |-> "idle"]

----------------------------------------------------------------------------
Init ==
  /\ posts = << >>
  /\ consumedOffsets = EmptyBag
  /\ txPosts = << >>
  /\ txOffsets = EmptyBag
  /\ pc = "idle"
  /\ cur = NoEvent
  /\ posts0 = << >>
  /\ offsets0 = EmptyBag
  /\ outcome = [kind |-> "none", at |-> "none"]
  /\ applied = {}
  /\ webhookCalls = 0
  /\ votes = EmptyBag
  /\ comments = EmptyBag
  /\ user = "none"
  /\ dc = DcIdle
  /\ failures = 0

\* The call begins: db.transaction opens on the committed tables.
Begin(e, first) ==
  /\ pc = "idle"
  /\ cur' = e
  /\ pc' = first
  /\ txPosts' = posts
  /\ txOffsets' = consumedOffsets
  /\ posts0' = posts
  /\ offsets0' = consumedOffsets
  /\ outcome' = [kind |-> "none", at |-> "none"]
  /\ UNCHANGED << posts, consumedOffsets, applied, webhookCalls >>

\* The transaction's callback rejects with `kind`: roll back, and the call
\* rejects with the same error.
Abort(kind) ==
  /\ posts' = TxAbort(posts, txPosts)
  /\ consumedOffsets' = TxAbort(consumedOffsets, txOffsets)
  /\ txPosts' = << >>
  /\ txOffsets' = EmptyBag
  /\ outcome' = [kind |-> kind, at |-> pc]
  /\ pc' = "done"
  /\ UNCHANGED << cur, posts0, offsets0, applied, webhookCalls >>

\* The call returns or rejects after the transaction has ended.
Finish(kind) ==
  /\ outcome' = [kind |-> kind, at |-> IF kind = "ok" THEN "none" ELSE pc]
  /\ pc' = "done"

TxSteps ==
  { "create_insert_post", "create_insert_offset", "create_commit",
    "delete_update_post", "delete_insert_offset", "delete_commit" }

\* Any statement of the transaction, or its commit, fails in the storage.
StorageFailure ==
  /\ pc \in TxSteps
  /\ Abort("StorageError")
  /\ UNCHANGED otherVars

\* unauthed_createPost({ post, rkey, authorDid, cid, offset })
CreateCall ==
  /\ \E e \in CreateEvents : Begin(e, "create_insert_post")
  /\ UNCHANGED otherVars

\* The webhook request issued from inside the transaction, right after the
\* Post insert.
CreateInsertPost_NotifyFirst ==
  /\ pc = "create_insert_post"
  /\ LET r == TxInsertPost(txPosts, cur) IN
       IF r.error # "none" THEN Abort(r.error)
       ELSE /\ txPosts' = r.rows
            /\ pc' = "create_insert_offset"
            /\ webhookCalls' = webhookCalls + 1
            /\ UNCHANGED << posts, consumedOffsets, txOffsets, cur, posts0,
                            offsets0, outcome, applied >>
  /\ UNCHANGED otherVars

CreateInsertPost ==
  /\ pc = "create_insert_post"
  /\ LET r == TxInsertPost(txPosts, cur) IN
       IF r.error # "none" THEN Abort(r.error)
       ELSE /\ txPosts' = r.rows
            /\ pc' = "create_insert_offset"
            /\ UNCHANGED << posts, consumedOffsets, txOffsets, cur, posts0,
                            offsets0, outcome, applied, webhookCalls >>
  /\ UNCHANGED otherVars

CreateInsertOffset ==
  /\ pc = "create_insert_offset"
  /\ LET r == TxInsertOffset(txOffsets, cur.offset) IN
       IF r.error # "none" THEN Abort(r.error)
       ELSE /\ txOffsets' = r.rows
            /\ pc' = "create_commit"
            /\ UNCHANGED << posts, consumedOffsets, txPosts, cur, posts0,
                            offsets0, outcome, applied, webhookCalls >>
  /\ UNCHANGED otherVars

CreateCommit ==
  /\ pc = "create_commit"
  /\ posts' = TxCommit(posts, txPosts)
  /\ consumedOffsets' = TxCommit(consumedOffsets, txOffsets)
  /\ txPosts' = << >>
  /\ txOffsets' = EmptyBag
  /\ applied' = applied \cup {[ev |-> cur, rows |-> Len(txPosts)]}
  /\ pc' = "notify"
  /\ UNCHANGED << cur, posts0, offsets0, outcome, webhookCalls >>
  /\ UNCHANGED otherVars

\* process.env.DISCORD_WEBHOOK_URL is read at each call; it is an input of
\* the call, set (NotifyGetProfile) or not set (this action):
\* console.error("Can't alert of new post: No DISCORD_WEBHOOK_URL set")
NotifyNoWebhook ==
  /\ pc = "notify"
  /\ Finish("ok")
  /\ UNCHANGED << posts, consumedOffsets, txPosts, txOffsets, cur, posts0,
                  offsets0, applied, webhookCalls >>
  /\ UNCHANGED otherVars

\* DISCORD_WEBHOOK_URL is set.
\* const bskyProfile = await getBlueskyProfile(authorDid): the fetch, the
\* JSON body or ProfileResponse.parse may throw, and nothing catches it.
NotifyGetProfile ==
  /\ pc = "notify"
  /\ \E ok \in BOOLEAN :
       IF ok THEN pc' = "webhook" /\ UNCHANGED outcome
       ELSE Finish("ProfileError")
  /\ UNCHANGED << posts, consumedOffsets, txPosts, txOffsets, cur, posts0,
                  offsets0, applied, webhookCalls >>
  /\ UNCHANGED otherVars

\* const webhookResponse = await fetch(process.env.DISCORD_WEBHOOK_URL, ...):
\* the request is issued; it throws, or answers ok, or answers not ok (which
\* is logged).
NotifyWebhook ==
  /\ pc = "webhook"
  /\ webhookCalls' = webhookCalls + 1
  /\ \E answer \in {"ok", "not_ok", "throws"} :
       IF answer = "throws" THEN Finish("WebhookError") ELSE Finish("ok")
  /\ UNCHANGED << posts, consumedOffsets, txPosts, txOffsets, cur, posts0,
                  offsets0, applied >>
  /\ UNCHANGED otherVars

\* unauthed_deletePost({ rkey, offset })
DeleteCall ==
  /\ \E e \in DeleteEvents : Begin(e, "delete_update_post")
  /\ UNCHANGED otherVars

DeleteUpdatePost ==
  /\ pc = "delete_update_post"
  /\ LET r == TxDeletePost(txPosts, cur.rkey) IN
       IF r.error # "none" THEN Abort(r.error)
       ELSE /\ txPosts' = r.rows
            /\ pc' = "delete_insert_offset"
            /\ UNCHANGED << posts, consumedOffsets, txOffsets, cur, posts0,
                            offsets0, outcome, applied, webhookCalls >>
  /\ UNCHANGED otherVars

DeleteInsertOffset ==
  /\ pc = "delete_insert_offset"
  /\ LET r == TxInsertOffset(txOffsets, cur.offset) IN
       IF r.error # "none" THEN Abort(r.error)
       ELSE /\ txOffsets' = r.rows
            /\ pc' = "delete_commit"
            /\ UNCHANGED << posts, consumedOffsets, txPosts, cur, posts0,
                            offsets0, outcome, applied, webhookCalls >>
  /\ UNCHANGED otherVars

DeleteCommit ==
  /\ pc = "delete_commit"
  /\ posts' = TxCommit(posts, txPosts)
  /\ consumedOffsets' = TxCommit(consumedOffsets, txOffsets)
  /\ txPosts' = << >>
  /\ txOffsets' = EmptyBag
  /\ applied' = applied \cup {[ev |-> cur, rows |-> Len(txPosts)]}
  /\ Finish("ok")
  /\ UNCHANGED << cur, posts0, offsets0, webhookCalls >>
  /\ UNCHANGED otherVars

\* The promise has settled; the consumer takes its result and goes on to
\* the next event of the feed.
Return ==
  /\ pc = "done"
  /\ pc' = "idle"
  /\ cur' = NoEvent
  /\ posts0' = << >>
  /\ offsets0' = EmptyBag
  /\ outcome' = [kind |-> "none", at |-> "none"]
  /\ webhookCalls' = 0
  /\ UNCHANGED << posts, consumedOffsets, txPosts, txOffsets, applied >>
  /\ UNCHANGED otherVars

Next ==
  \/ CreateCall
  \/ CreateInsertPost
  \/ CreateInsertOffset
  \/ CreateCommit
  \/ NotifyNoWebhook
  \/ NotifyGetProfile
  \/ NotifyWebhook
  \/ DeleteCall
  \/ DeleteUpdatePost
  \/ DeleteInsertOffset
  \/ DeleteCommit
  \/ StorageFailure
  \/ Return

Spec == Init /\ [][Next]_vars

----------------------------------------------------------------------------
\* Reading the committed tables.

PostCount(tab, authorDid, rkey) ==
  Cardinality({ i \in DOMAIN tab :
                  tab[i].authorDid = authorDid /\ tab[i].rkey = rkey })

OffsetCount(tab, offset) == CopiesIn([offset |-> offset], tab)

\* Row i of tab is the row the Create event e writes (whatever its status).
RowOf(tab, i, e) ==
  /\ tab[i].authorDid = e.authorDid
  /\ tab[i].rkey = e.rkey
  /\ tab[i].cid = e.cid
  /\ tab[i].title = e.post.title
  /\ tab[i].url = e.post.url
  /\ tab[i].createdAt = e.post.createdAt

\* The transaction of the current call has committed.
CallCommitted ==
  \/ pc \in {"notify", "webhook"}
  \/ pc = "done" /\ outcome.at \notin TxSteps

----------------------------------------------------------------------------
\* C1. Idempotent replay.  A Create event applied from a store that holds
\* neither its key nor its offset leaves exactly one Post row for its
\* (authorDid, rkey) and exactly one ConsumedOffset row for its offset; the
\* same event applied again (its row and its offset are in the store when
\* the call begins) leaves exactly one of each and adds no row to either
\* table.
C1_IdempotentReplay ==
  /\ ( /\ cur.type = "create"
       /\ CallCommitted
       /\ ~PostKeyTaken(posts0, cur.authorDid, cur.rkey)
       /\ ~OffsetTaken(offsets0, cur.offset) )
     => /\ PostCount(posts, cur.authorDid, cur.rkey) = 1
        /\ OffsetCount(consumedOffsets, cur.offset) = 1
  /\ ( /\ cur.type = "create"
       /\ pc = "done"
       /\ \E i \in DOMAIN posts0 : RowOf(posts0, i, cur)
       /\ OffsetTaken(offsets0, cur.offset) )
     => /\ PostCount(posts, cur.authorDid, cur.rkey) = 1
        /\ OffsetCount(consumedOffsets, cur.offset) = 1
        /\ Len(posts) = Len(posts0)
        /\ BagCardinality(consumedOffsets) = BagCardinality(offsets0)

\* The second application of a Create event has ended.
C1_Witness ==
  /\ cur.type = "create"
  /\ pc = "done"
  /\ \E i \in DOMAIN posts0 : RowOf(posts0, i, cur)
  /\ OffsetTaken(offsets0, cur.offset)
  /\ outcome.kind = "DuplicateKey"

\* C2. Atomicity under failure.  When the insert of the ConsumedOffset row
\* fails after the mutation step of the same transaction succeeded (the Post
\* insert of unauthed_createPost, the status update of unauthed_deletePost),
\* the committed store is the store as it was before the call: no new Post
\* row, no status change, no ConsumedOffset row for that offset.
C2_AtomicityUnderFailure ==
  ( /\ pc = "done"
    /\ outcome.at \in {"create_insert_offset", "delete_insert_offset"} )
  => /\ posts = posts0
     /\ consumedOffsets = offsets0
     /\ ~OffsetTaken(offsets0, cur.offset)
          => ~OffsetTaken(consumedOffsets, cur.offset)

\* The storage failed on the offset insert of a Create whose Post insert had
\* succeeded.
C2_Witness ==
  /\ pc = "done"
  /\ cur.type = "create"
  /\ outcome = [kind |-> "StorageError", at |-> "create_insert_offset"]
  /\ ~PostKeyTaken(posts0, cur.authorDid, cur.rkey)
  /\ ~OffsetTaken(offsets0, cur.offset)

\* C3. Redelivery is free of side effects.  While and after an event (Create
\* or Delete) is applied whose offset was recorded when the call began, the
\* committed store is the store as it was: no Post row added, no status
\* changed, the same ConsumedOffset rows.
C3_RedeliveryNoSideEffect ==
  ( /\ cur.type \in {"create", "delete"}
    /\ OffsetTaken(offsets0, cur.offset) )
  => /\ posts = posts0
     /\ consumedOffsets = offsets0

\* A Delete with a recorded offset has ended, and its update matched a live
\* Post.
C3_Witness ==
  /\ pc = "done"
  /\ cur.type = "delete"
  /\ OffsetTaken(offsets0, cur.offset)
  /\ outcome.kind = "AlreadyConsumed"
  /\ \E i \in DOMAIN posts0 :
       posts0[i].rkey = cur.rkey /\ posts0[i].status = "live"

\* C4. Unique key enforcement.  No two Post rows share (authorDid, rkey); a
\* Create for a key the store holds ends with the duplicate-key error of its
\* Post insert (unless the storage failed on that statement), and every Post
\* row, the first one with its cid, title, url, createdAt and status
\* included, is as it was.
C4_UniqueKey ==
  /\ \A i, j \in DOMAIN posts :
       (posts[i].authorDid = posts[j].authorDid /\ posts[i].rkey = posts[j].rkey)
       => i = j
  /\ ( /\ pc = "done"
       /\ cur.type = "create"
       /\ PostKeyTaken(posts0, cur.authorDid, cur.rkey) )
     => /\ outcome.at = "create_insert_post"
        /\ outcome.kind \in {"DuplicateKey", "StorageError"}
        /\ posts = posts0

\* A second Create for a key, with another offset and another content, has
\* been rejected as a duplicate.
C4_Witness ==
  /\ pc = "done"
  /\ cur.type = "create"
  /\ outcome.kind = "DuplicateKey"
  /\ ~OffsetTaken(offsets0, cur.offset)
  /\ \E i \in DOMAIN posts0 :
       /\ posts0[i].authorDid = cur.authorDid
       /\ posts0[i].rkey = cur.rkey
       /\ posts0[i].cid # cur.cid

\* C5. A Delete event changes only the matching record: while and after a
\* Delete for rkey r of author A's repository is applied, every Post that is
\* not keyed (A, r), a Post of another author with the same rkey included,
\* keeps its status.
C5_DeleteChangesOnlyMatching ==
  cur.type = "delete"
  => \A i \in DOMAIN posts0 :
       (posts0[i].authorDid # cur.authorDid \/ posts0[i].rkey # cur.rkey)
       => posts[i].status = posts0[i].status

\* C6. Ledger and mutation are coupled in every state a reader can see,
\* between the steps of a transaction included: every committed Post row was
\* inserted by a committed Create whose offset is in ConsumedOffset, every
\* deleted Post has a committed Delete of its rkey whose offset is in
\* ConsumedOffset, and every offset in ConsumedOffset belongs to a committed
\* event whose mutation is in the store (the Create's row; for a Delete,
\* status deleted on every row of its rkey that was there when it committed).
C6_LedgerCoupled ==
  /\ \A i \in DOMAIN posts :
       \E a \in applied :
         /\ a.ev.type = "create"
         /\ a.rows = i
         /\ RowOf(posts, i, a.ev)
         /\ OffsetTaken(consumedOffsets, a.ev.offset)
  /\ \A i \in DOMAIN posts :
       posts[i].status = "deleted"
       => \E a \in applied :
            /\ a.ev.type = "delete"
            /\ a.ev.rkey = posts[i].rkey
            /\ OffsetTaken(consumedOffsets, a.ev.offset)
  /\ \A o \in Offsets :
       OffsetTaken(consumedOffsets, o)
       => /\ OffsetCount(consumedOffsets, o) = 1
          /\ \E a \in applied :
               /\ a.ev.offset = o
               /\ a.rows \in 0..Len(posts)
               /\ a.ev.type = "create" => RowOf(posts, a.rows, a.ev)
               /\ a.ev.type = "delete"
                    => \A i \in 1..a.rows :
                         posts[i].rkey = a.ev.rkey => posts[i].status = "deleted"

\* A reader looks between the two inserts of a Create's transaction, at a
\* store that holds a deleted Post and two recorded offsets.
C6_Witness ==
  /\ pc = "create_insert_offset"
  /\ Len(txPosts) > Len(posts)
  /\ BagCardinality(consumedOffsets) >= 2
  /\ \E i \in DOMAIN posts : posts[i].status = "deleted"

\* C7. Soft delete only.  No step removes a Post row or changes anything but
\* the status of one: the rows, and so the (authorDid, rkey) keys, of the
\* store never shrink, and a Delete adds none.
C7_SoftDeleteOnly ==
  [][ /\ \A i \in DOMAIN posts :
           /\ i \in DOMAIN posts'
           /\ [posts'[i] EXCEPT !.status = "any"]
                = [posts[i] EXCEPT !.status = "any"]
      /\ cur.type = "delete" => Len(posts') = Len(posts) ]_vars

\* A Delete has committed and turned a live Post into a deleted one.
C7_Witness ==
  /\ pc = "done"
  /\ cur.type = "delete"
  /\ outcome.kind = "ok"
  /\ \E i \in DOMAIN posts0 :
       posts0[i].status = "live" /\ posts[i].status = "deleted"

\* C8. Out-of-order-safe and idempotent delete.  A Delete with an offset not
\* yet recorded, for an rkey of which the store holds no Post row that is
\* not already deleted, ends without error (unless the storage fails), adds
\* no Post row, changes no Post row, and records its offset.
C8_DeleteNoOp ==
  ( /\ pc = "done"
    /\ cur.type = "delete"
    /\ ~OffsetTaken(offsets0, cur.offset)
    /\ \A i \in DOMAIN posts0 :
         posts0[i].rkey = cur.rkey => posts0[i].status = "deleted" )
  => /\ outcome.kind \in {"ok", "StorageError"}
     /\ posts = posts0
     /\ outcome.kind = "ok"
          => /\ OffsetCount(consumedOffsets, cur.offset) = 1
             /\ BagCardinality(consumedOffsets) = BagCardinality(offsets0) + 1

\* A Delete for an rkey whose Post is already deleted has ended well.
C8_Witness ==
  /\ pc = "done"
  /\ cur.type = "delete"
  /\ ~OffsetTaken(offsets0, cur.offset)
  /\ \E i \in DOMAIN posts0 : posts0[i].rkey = cur.rkey
  /\ \A i \in DOMAIN posts0 :
       posts0[i].rkey = cur.rkey => posts0[i].status = "deleted"
  /\ outcome.kind = "ok"

\* C9. An already-consumed offset is skipped, not failed: a call of
\* unauthed_createPost or unauthed_deletePost with an offset that was
\* recorded when it began ends as a no-op and hands no error to its caller
\* (a failure of the storage apart).
C9_ConsumedOffsetSkipped ==
  ( /\ pc = "done"
    /\ cur.type \in {"create", "delete"}
    /\ OffsetTaken(offsets0, cur.offset) )
  => outcome.kind \in {"ok", "StorageError"}

\* C10. Notification failures are swallowed: once the transaction of
\* unauthed_createPost has committed, the call ends well whatever the
\* notification step does, with the Post row and the ConsumedOffset row in
\* place.
C10_NotificationSwallowed ==
  ( /\ pc = "done"
    /\ cur.type = "create"
    /\ CallCommitted )
  => /\ outcome.kind = "ok"
     /\ PostKeyTaken(posts, cur.authorDid, cur.rkey)
     /\ OffsetTaken(consumedOffsets, cur.offset)

----------------------------------------------------------------------------
\* The read side: the queries of post.ts and getTotalSubmissions, over the
\* committed tables Post, PostVote and Comment.

\* Post rows a read-side behaviour holds at most.
MaxPosts == 2

\* PostVote rows a read-side behaviour holds at most.
MaxVotes == 2

\* Comment rows a read-side behaviour holds at most.
MaxComments == 2

\* JULIANDAY('now'), in hours.
Now == 1

\* The latest createdAt an author claims, in hours: up to three hours after
\* Now.
MaxCreatedAt == 4

\* SQL NULL, and JavaScript's undefined where drizzle hands it on.
Null == {}

\* a ?? b, COALESCE(a, b)
Coalesce(a, b) == IF a = Null THEN b ELSE CHOOSE x \in a : TRUE

RECURSIVE BagSum(_, _)
BagSum(B, S) ==
  IF S = {} THEN 0
  ELSE LET r == CHOOSE x \in S : TRUE IN CopiesIn(r, B) + BagSum(B, S \ {r})

\* count(...) over the rows of bag B that are in set S
CountRows(B, S) == BagSum(B, S \cap BagToSet(B))

\* A count that takes every status.
CommentCountSubQuery_AnyStatus(C, postId) ==
  LET n == CountRows(C, { r \in BagToSet(C) : r.postId = postId })
  IN IF n = 0 THEN Null ELSE { n }

\* commentCountSubQuery left-joined on Post.id: the count of the post's live
\* comments, NULL when the sub-query has no group for the post.
CommentCountSubQuery(C, postId) ==
  LET n == CountRows(C, { r \in BagToSet(C) :
                            r.postId = postId /\ r.status = "live" })
  IN IF n = 0 THEN Null ELSE { n }

\* A sub-query that keeps a row for every post, with count 0.
VotesSubQuery_ZeroCount(V, postId) ==
  { CountRows(V, { r \in BagToSet(V) : r.postId = postId }) }

\* votesSubQuery left-joined on Post.id: coalesce(count(PostVote.id), 1) of
\* the post's group, NULL when PostVote has no row for the post.
VotesSubQuery(V, postId) ==
  LET n == CountRows(V, { r \in BagToSet(V) : r.postId = postId })
  IN IF n = 0 THEN Null ELSE { Coalesce({ n }, 1) }

\* buildUserHasVotedQuery: the number of rows of hasVoted for the post, one
\* for each PostVote row of the session's user on it.
UserHasVotedRows(V, u, postId) ==
  IF u = "none" THEN 0
  ELSE CountRows(V, { r \in BagToSet(V) :
                        r.postId = postId /\ r.authorDid = u })

\* The row the three left joins give for post row p, as the queries map it.
JoinedRow(p, V, C, u) ==
  [id |-> p.id, rkey |-> p.rkey, cid |-> p.cid, title |-> p.title,
   url |-> p.url, createdAt |-> p.createdAt, authorDid |-> p.authorDid,
   voteCount |-> Coalesce(VotesSubQuery(V, p.id), 1),
   commentCount |-> Coalesce(CommentCountSubQuery(C, p.id), 0),
   userHasVoted |-> UserHasVotedRows(V, u, p.id) > 0]

\* A left join gives one row for each matching row of hasVoted, and one row
\* when none matches.
RECURSIVE Copies(_, _)
Copies(x, n) == IF n <= 0 THEN << >> ELSE << x >> \o Copies(x, n - 1)

JoinCopies(p, V, u) ==
  IF UserHasVotedRows(V, u, p.id) = 0 THEN 1 ELSE UserHasVotedRows(V, u, p.id)

RECURSIVE JoinAll(_, _, _, _)
JoinAll(P, V, C, u) ==
  IF P = << >> THEN << >>
  ELSE Copies(JoinedRow(Head(P), V, C, u), JoinCopies(Head(P), V, u))
         \o JoinAll(Tail(P), V, C, u)

\* A where clause that leaves the status out.
LiveRows_AnyStatus(P) == P

\* .where(eq(schema.Post.status, "live"))
LiveRows(P) == SelectSeq(P, LAMBDA p : p.status = "live")

RECURSIVE Perms(_)
Perms(S) ==
  IF S = {} THEN { << >> }
  ELSE UNION { { << x >> \o q : q \in Perms(S \ {x}) } : x \in S }

\* The orders in which a query may hand out the rows of J, given which row
\* must not come after which.
Orders(J, Before(_, _)) ==
  { [k \in DOMAIN J |-> J[q[k]]] :
      q \in { q \in Perms(DOMAIN J) :
                \A k \in 1..(Len(J) - 1) : ~Before(J[q[k + 1]], J[q[k]]) } }

RECURSIVE MulCarry(_, _, _)
\* The digits (base 10000, lowest first) of n * k + carry.
MulCarry(n, k, carry) ==
  IF n = << >> THEN (IF carry = 0 THEN << >> ELSE << carry >>)
  ELSE LET t == Head(n) * k + carry
       IN << t % 10000 >> \o MulCarry(Tail(n), k, t \div 10000)

RECURSIVE TimesPow(_, _, _)
\* n * k^e
TimesPow(n, k, e) ==
  IF e = 0 THEN n ELSE TimesPow(MulCarry(n, k, 0), k, e - 1)

RECURSIVE DigitsLess(_, _, _)
DigitsLess(a, b, i) ==
  IF i = 0 THEN FALSE
  ELSE IF a[i] # b[i] THEN a[i] < b[i]
  ELSE DigitsLess(a, b, i - 1)

BigLess(a, b) ==
  IF Len(a) # Len(b) THEN Len(a) < Len(b) ELSE DigitsLess(a, b, Len(a))

\* The exponent 1.8 of the rank, as RankExpNum / RankExpDen.
RankExpNum == 9

RankExpDen == 5

\* The hours added to the age of a post.
RankOffset == 2

\* (JULIANDAY('now') - JULIANDAY(createdAt)) * 24 + 2
RankBase(row) == (Now - row.createdAt) + RankOffset

\* The rank is NULL when pow() has no value (a negative base) and when the
\* division is by zero.
RankIsNull(row) == RankBase(row) <= 0

\* A rank that grows with the age.
RankLess_AgeUp(r1, r2) ==
  /\ ~RankIsNull(r1)
  /\ ~RankIsNull(r2)
  /\ BigLess(TimesPow(TimesPow(<< 1 >>, r1.voteCount, RankExpDen),
                      RankBase(r1), RankExpNum),
             TimesPow(TimesPow(<< 1 >>, r2.voteCount, RankExpDen),
                      RankBase(r2), RankExpNum))

\* rank(r1) < rank(r2), both not NULL, for
\* rank = CAST(COALESCE(voteCount, 1) AS REAL) / pow(base, 1.8):
\* v1 / b1^(9/5) < v2 / b2^(9/5) iff v1^5 * b2^9 < v2^5 * b1^9.
RankLess(r1, r2) ==
  /\ ~RankIsNull(r1)
  /\ ~RankIsNull(r2)
  /\ BigLess(TimesPow(TimesPow(<< 1 >>, r1.voteCount, RankExpDen),
                      RankBase(r2), RankExpNum),
             TimesPow(TimesPow(<< 1 >>, r2.voteCount, RankExpDen),
                      RankBase(r1), RankExpNum))

\* .orderBy(desc(rank)): r1 must come before r2.  NULL sorts below every
\* value, so last.
RankBefore(r1, r2) ==
  \/ RankLess(r2, r1)
  \/ ~RankIsNull(r1) /\ RankIsNull(r2)

NoOrder(r1, r2) == FALSE

\* getFrontpagePosts: the rows of the query, before they are ordered.
FrontpageRows(P, V, C, u) == JoinAll(LiveRows(P), V, C, u)

\* getFrontpagePosts: the results the query may give.
GetFrontpagePosts(P, V, C, u) ==
  Orders(FrontpageRows(P, V, C, u), RankBefore)

\* getUserPosts(userDid): the results the query may give (it states no
\* order).
GetUserPosts(P, V, C, u, userDid) ==
  Orders(JoinAll(SelectSeq(LiveRows(P), LAMBDA p : p.authorDid = userDid),
                 V, C, u),
         NoOrder)

\* What getPost returns when no row has the key.
NoPost == [id |-> 0, status |-> "null"]

\* getPost(authorDid, rkey): the first joined row of the key, with the
\* status of the Post row; null when there is none.
GetPost(P, V, C, u, authorDid, rkey) ==
  LET rows == SelectSeq(P, LAMBDA p : p.authorDid = authorDid /\ p.rkey = rkey)
  IN IF rows = << >> THEN NoPost
     ELSE [id |-> rows[1].id, rkey |-> rows[1].rkey, cid |-> rows[1].cid,
           title |-> rows[1].title, url |-> rows[1].url,
           createdAt |-> rows[1].createdAt, authorDid |-> rows[1].authorDid,
           status |-> rows[1].status,
           commentCount |-> Coalesce(CommentCountSubQuery(C, rows[1].id), 0),
           voteCount |-> Coalesce(VotesSubQuery(V, rows[1].id), 1),
           userHasVoted |-> UserHasVotedRows(V, u, rows[1].id) > 0]

\* getTotalSubmissions(did)
GetTotalSubmissions(P, C, did) ==
  [postCount |-> Len(SelectSeq(LiveRows(P), LAMBDA p : p.authorDid = did)),
   commentCount |-> CountRows(C, { r \in BagToSet(C) :
                                     r.authorDid = did /\ r.status = "live" })]

\* The committed effect of unauthed_createPost for a post the author dates
\* createdAt (the ledger row plays no part in the reads and is left out).
ReadCreate(d, r, createdAt) ==
  LET in == [post |-> [title |-> << "title", Len(posts) + 1 >>,
                       url |-> << "url", Len(posts) + 1 >>,
                       createdAt |-> createdAt],
             authorDid |-> d, rkey |-> r, cid |-> << "cid", Len(posts) + 1 >>]
      res == TxInsertPost(posts, in)
  IN /\ Len(posts) < MaxPosts
     /\ res.error = "none"
     /\ posts' = TxCommit(posts, res.rows)

\* A post created now.
ReadCreatePost ==
  /\ \E d \in DIDs, r \in RKeys : ReadCreate(d, r, Now)
  /\ UNCHANGED << callVars, otherVars >>

\* A post created at any hour an author may claim.
ReadCreatePostAt ==
  /\ \E d \in DIDs, r \in RKeys, c \in 0..MaxCreatedAt : ReadCreate(d, r, c)
  /\ UNCHANGED << callVars, otherVars >>

\* The committed effect of unauthed_deletePost.
ReadDeletePost ==
  /\ \E r \in RKeys :
       /\ \E i \in DOMAIN posts : posts[i].rkey = r /\ posts[i].status = "live"
       /\ posts' = TxCommit(posts, TxDeletePost(posts, r).rows)
  /\ UNCHANGED << callVars, otherVars >>

\* A vote on a post: one more PostVote row.  Nothing keeps an author from
\* voting twice on a post.
ReadVote ==
  /\ BagCardinality(votes) < MaxVotes
  /\ \E i \in DOMAIN posts, d \in DIDs :
       votes' = votes (+) SetToBag({[postId |-> posts[i].id, authorDid |-> d]})
  /\ UNCHANGED << posts, callVars, comments, user, dc, failures >>

\* A comment on a post: one more live Comment row.
ReadComment ==
  /\ BagCardinality(comments) < MaxComments
  /\ \E i \in DOMAIN posts, d \in DIDs :
       comments' = comments (+) SetToBag({[postId |-> posts[i].id,
                                           authorDid |-> d, status |-> "live"]})
  /\ UNCHANGED << posts, callVars, votes, user, dc, failures >>

\* A comment is deleted: its status becomes deleted.
ReadDeleteComment ==
  /\ \E c \in BagToSet(comments) :
       /\ c.status = "live"
       /\ comments' = (comments (-) SetToBag({c}))
                        (+) SetToBag({[c EXCEPT !.status = "deleted"]})
  /\ UNCHANGED << posts, callVars, votes, user, dc, failures >>

\* A session begins or ends: getUser() finds another user, or none.
ReadSession ==
  /\ \E u \in DIDs \cup {"none"} : u # user /\ user' = u
  /\ UNCHANGED << posts, callVars, votes, comments, dc, failures >>

\* Posts, votes and sessions.
NextRead ==
  \/ ReadCreatePost
  \/ ReadDeletePost
  \/ ReadVote
  \/ ReadSession

SpecRead == Init /\ [][NextRead]_vars

\* Posts and comments.
NextComments ==
  \/ ReadCreatePost
  \/ ReadDeletePost
  \/ ReadComment
  \/ ReadDeleteComment

SpecComments == Init /\ [][NextComments]_vars

\* Live posts of any date, and votes.
NextRank ==
  \/ ReadCreatePostAt
  \/ ReadVote

SpecRank == Init /\ [][NextRank]_vars

\* ---------------------------------------------------------------------
\* DidCollections: the collections of a repository, asked of its PDS.

\* The identifiers the component is rendered for.
Identifiers == {"alice.example", "did:plc:a"}

\* The PDS endpoints a DID document may name; "none" when it names none.
PdsEndpoints == {"https://pds1", "https://pds2"}

\* The collection names a repository may hold.
NSIDs == {"fyi.unravel.frontpage.post", "fyi.unravel.frontpage.comment",
          "fyi.unravel.frontpage.vote"}

\* The longest list of collections a repository describes.
MaxCollections == 2

\* The results of resolveIdentity.
IdentityResults ==
  { [success |-> FALSE] }
    \cup { [success |-> TRUE, didDocument |-> [id |-> d, pds |-> e]] :
             d \in DIDs, e \in PdsEndpoints \cup {"none"} }

\* getPds(didDocument): the endpoint of the document's PDS service,
\* undefined when it has none.
GetPds(didDocument) ==
  IF didDocument.pds = "none" THEN Null ELSE { didDocument.pds }

\* new URL(`${pds}/xrpc/com.atproto.repo.describeRepo`) with repo set.
DescribeRepoUrl(pds, did) ==
  << pds, "/xrpc/com.atproto.repo.describeRepo", "repo", did >>

\* What the awaited fetch gives: a response, or a rejection.
Responses ==
  { [rejected |-> TRUE, status |-> 0, statusText |-> ""] }
    \cup { [rejected |-> FALSE, status |-> 200, statusText |-> "OK"],
           [rejected |-> FALSE, status |-> 404, statusText |-> "Not Found"],
           [rejected |-> FALSE, status |-> 500,
            statusText |-> "Internal Server Error"] }

\* response.ok
Ok(response) == response.status \in 200..299

RECURSIVE SeqsUpTo(_, _)
SeqsUpTo(S, n) ==
  IF n = 0 THEN { << >> }
  ELSE SeqsUpTo(S, n - 1)
         \cup { Append(q, x) : q \in { q \in SeqsUpTo(S, n - 1) : Len(q) = n - 1 },
                               x \in S }

\* What the awaited response.json() gives: a rejection (the body is not
\* JSON), a body without collections, or a body with them.
Bodies ==
  { [kind |-> "rejected", collections |-> << >>],
    [kind |-> "other", collections |-> << >>] }
    \cup { [kind |-> "collections", collections |-> q] :
             q \in SeqsUpTo(NSIDs, MaxCollections) }

NoError == [kind |-> "none"]
NoResult == [kind |-> "none"]

\* The list the component returns.
Render(identifier, collections) ==
  IF Len(collections) = 0
  THEN [kind |-> "ul", empty |-> "No collections.", items |-> << >>]
  ELSE [kind |-> "ul", empty |-> "",
        items |-> [k \in DOMAIN collections |->
                     [key |-> collections[k],
                      href |-> << "/at/", identifier, "/", collections[k] >>,
                      text |-> collections[k]]]]

\* The call ends by throwing err.
DcThrow(err) == [dc EXCEPT !.pc = "done", !.error = err]

nonDcVars == << posts, callVars, votes, comments, user, failures >>

\* DidCollections({ identifier }) is called: await resolveIdentity.
DcCall ==
  /\ dc.pc = "idle"
  /\ \E identifier \in Identifiers :
       dc' = [pc |-> "resolve", identifier |-> identifier,
              identityResult |-> [success |-> FALSE], getPdsCalls |-> 0,
              requests |-> << >>, response |-> CHOOSE r \in Responses : r.rejected,
              body |-> [kind |-> "other", collections |-> << >>],
              error |-> NoError, result |-> NoResult]
  /\ UNCHANGED nonDcVars

\* A step from the resolved identity that asks a default PDS when the
\* document names none.
DcResolve_DefaultPds ==
  /\ dc.pc = "resolve"
  /\ \E r \in IdentityResults :
       IF ~r.success
       THEN dc' = [DcThrow([kind |-> "Could not resolve identity",
                            identifier |-> dc.identifier])
                   EXCEPT !.identityResult = r]
       ELSE dc' = [dc EXCEPT !.identityResult = r, !.getPdsCalls = @ + 1,
                             !.pc = "fetch",
                             !.requests =
                                Append(@, DescribeRepoUrl(
                                            Coalesce(GetPds(r.didDocument),
                                                     "https://pds1"),
                                            r.didDocument.id))]
  /\ UNCHANGED nonDcVars

\* resolveIdentity has answered: lines 7-23, up to the awaited fetch.
DcResolve ==
  /\ dc.pc = "resolve"
  /\ \E r \in IdentityResults :
       IF ~r.success
       THEN dc' = [DcThrow([kind |-> "Could not resolve identity",
                            identifier |-> dc.identifier])
                   EXCEPT !.identityResult = r]
       ELSE LET pds == GetPds(r.didDocument)
            IN IF pds = Null
               THEN dc' = [DcThrow([kind |-> "No PDS found for DID",
                                    did |-> r.didDocument.id])
                           EXCEPT !.identityResult = r, !.getPdsCalls = @ + 1]
               ELSE dc' = [dc EXCEPT !.identityResult = r,
                                     !.getPdsCalls = @ + 1,
                                     !.pc = "fetch",
                                     !.requests =
                                        Append(@, DescribeRepoUrl(
                                                    Coalesce(pds, ""),
                                                    r.didDocument.id))]
  /\ UNCHANGED nonDcVars

\* The fetch has settled: lines 25-31, up to the awaited response.json().
DcResponse ==
  /\ dc.pc = "fetch"
  /\ \E response \in Responses :
       IF response.rejected
       THEN dc' = [DcThrow([kind |-> "fetch rejected"])
                   EXCEPT !.response = response]
       ELSE IF ~Ok(response)
       THEN dc' = [DcThrow([kind |-> "Failed to fetch collections",
                            statusText |-> response.statusText,
                            url |-> dc.requests[Len(dc.requests)]])
                   EXCEPT !.response = response]
       ELSE dc' = [dc EXCEPT !.response = response, !.pc = "json"]
  /\ UNCHANGED nonDcVars

\* response.json() has settled: lines 31-49.
DcJson ==
  /\ dc.pc = "json"
  /\ \E body \in Bodies :
       IF body.kind = "rejected"
       THEN dc' = [DcThrow([kind |-> "json rejected"]) EXCEPT !.body = body]
       ELSE IF body.kind = "other"
       THEN dc' = [DcThrow([kind |-> "TypeError"]) EXCEPT !.body = body]
       ELSE dc' = [dc EXCEPT !.body = body, !.pc = "done",
                             !.result = Render(dc.identifier, body.collections)]
  /\ UNCHANGED nonDcVars

\* The call is over; the component may be rendered again.
DcReturn ==
  /\ dc.pc = "done"
  /\ dc' = DcIdle
  /\ UNCHANGED nonDcVars

NextDid ==
  \/ DcCall
  \/ DcResolve
  \/ DcResponse
  \/ DcJson
  \/ DcReturn

SpecDid == Init /\ [][NextDid]_vars

\* ---------------------------------------------------------------------
\* The consumer that retries: an event whose call was rejected by a storage
\* failure is invoked again, and the storage fails MaxFailures times at
\* most.

MaxFailures == 2

\* The last offset of the feed the retrying consumer reads.
MaxRetryOffset == 2

\* The feed of the retrying consumer: the events of one repository.
RetryEvents ==
  { e \in CreateEvents \cup DeleteEvents :
      e.offset <= MaxRetryOffset /\ e.authorDid = "did:plc:a" }

\* The consumer invokes the next event of its feed.
RetryCall ==
  /\ \E e \in RetryEvents :
       Begin(e, IF e.type = "create" THEN "create_insert_post"
                ELSE "delete_update_post")
  /\ UNCHANGED otherVars

\* A storage failure, while the storage still fails.
RetryStorageFailure ==
  /\ failures < MaxFailures
  /\ pc \in TxSteps
  /\ Abort("StorageError")
  /\ failures' = failures + 1
  /\ UNCHANGED << votes, comments, user, dc >>

\* The call was rejected by a storage failure: the consumer invokes the
\* same event again.
RetryAgain ==
  /\ pc = "done"
  /\ outcome.kind = "StorageError"
  /\ pc' = IF cur.type = "create" THEN "create_insert_post"
           ELSE "delete_update_post"
  /\ txPosts' = posts
  /\ txOffsets' = consumedOffsets
  /\ outcome' = [kind |-> "none", at |-> "none"]
  /\ webhookCalls' = 0
  /\ UNCHANGED << posts, consumedOffsets, cur, posts0, offsets0, applied >>
  /\ UNCHANGED otherVars

\* The call ended otherwise: the consumer goes on to the next event.
RetryReturn ==
  /\ outcome.kind # "StorageError"
  /\ Return

NextRetry ==
  \/ RetryCall
  \/ CreateInsertPost
  \/ CreateInsertOffset
  \/ CreateCommit
  \/ NotifyNoWebhook
  \/ NotifyGetProfile
  \/ NotifyWebhook
  \/ DeleteUpdatePost
  \/ DeleteInsertOffset
  \/ DeleteCommit
  \/ RetryStorageFailure
  \/ RetryAgain
  \/ RetryReturn

\* Every awaited step settles and the consumer keeps running.
SpecRetry == Init /\ [][NextRetry]_vars /\ WF_vars(NextRetry)

\* The PostVote rows on a post.
VotesOn(postId) ==
  BagSum(votes, { [postId |-> postId, authorDid |-> d] : d \in DIDs })

\* The live Comment rows on a post.
LiveCommentsOn(postId) ==
  BagSum(comments, { [postId |-> postId, authorDid |-> d, status |-> "live"] :
                       d \in DIDs })

\* Row id is somewhere in result res.
Listed(res, id) == \E k \in DOMAIN res : res[k].id = id

\* C11. Deleted posts are hidden from the listings and kept for the direct
\* lookup.  A Post that is live is in every result of getFrontpagePosts and
\* of getUserPosts(authorDid) and counts in
\* getTotalSubmissions(authorDid).postCount; once it is deleted it is in no
\* result of either and does not count; getPost(authorDid, rkey) returns it
\* in both cases, with its status.
C11_DeletedHidden ==
  /\ GetFrontpagePosts(posts, votes, comments, user) # {}
  /\ \A d \in DIDs :
       /\ GetUserPosts(posts, votes, comments, user, d) # {}
       /\ GetTotalSubmissions(posts, comments, d).postCount
            = Cardinality({ i \in DOMAIN posts :
                              posts[i].authorDid = d /\ posts[i].status = "live" })
  /\ \A i \in DOMAIN posts :
       LET p == posts[i]
           got == GetPost(posts, votes, comments, user, p.authorDid, p.rkey)
       IN /\ got # NoPost
          /\ got.id = p.id
          /\ got.status = p.status
          /\ p.status \in {"live", "deleted"}
          /\ \A res \in GetFrontpagePosts(posts, votes, comments, user) :
               Listed(res, p.id) <=> p.status = "live"
          /\ \A res \in GetUserPosts(posts, votes, comments, user, p.authorDid) :
               Listed(res, p.id) <=> p.status = "live"

\* A deleted post on which the session's user has voted, next to a live one.
C11_Witness ==
  \E i, j \in DOMAIN posts :
    /\ posts[i].status = "deleted"
    /\ posts[j].status = "live"
    /\ user # "none"
    /\ UserHasVotedRows(votes, user, posts[i].id) > 0

\* C12. Zero-vote floor.  For a post without PostVote rows getPost, and every
\* row of it in getUserPosts and getFrontpagePosts, report voteCount 1; for a
\* post with n >= 1 rows they report n.  The front page ranks by the same
\* number: of two live posts of one createdAt, one must come before the
\* other exactly when its reported voteCount is the higher, so that a post
\* without votes weighs as a post with one.
C12_ZeroVoteFloor ==
  \A i \in DOMAIN posts :
    LET p == posts[i]
        n == VotesOn(p.id)
        expected == IF n = 0 THEN 1 ELSE n
    IN /\ GetPost(posts, votes, comments, user, p.authorDid, p.rkey).voteCount
            = expected
       /\ \A res \in GetFrontpagePosts(posts, votes, comments, user) :
            \A k \in DOMAIN res : res[k].id = p.id => res[k].voteCount = expected
       /\ \A res \in GetUserPosts(posts, votes, comments, user, p.authorDid) :
            \A k \in DOMAIN res : res[k].id = p.id => res[k].voteCount = expected
       /\ \A j \in DOMAIN posts :
            LET q == posts[j]
                m == IF VotesOn(q.id) = 0 THEN 1 ELSE VotesOn(q.id)
            IN q.createdAt = p.createdAt
               => ( RankBefore(JoinedRow(p, votes, comments, user),
                               JoinedRow(q, votes, comments, user))
                    <=> expected > m )

\* A live post without votes next to a live post with two.
C12_Witness ==
  \E i, j \in DOMAIN posts :
    /\ posts[i].status = "live"
    /\ posts[j].status = "live"
    /\ VotesOn(posts[i].id) = 0
    /\ VotesOn(posts[j].id) = 2

\* The place of the post's row in a result that holds it once.
PlaceOf(res, id) == CHOOSE k \in DOMAIN res : res[k].id = id

\* Post p outranks post q: its score is strictly higher and every result of
\* getFrontpagePosts lists it earlier.
Outranks(p, q) ==
  /\ RankLess(JoinedRow(q, votes, comments, user),
              JoinedRow(p, votes, comments, user))
  /\ \A res \in GetFrontpagePosts(posts, votes, comments, user) :
       /\ Listed(res, p.id)
       /\ Listed(res, q.id)
       /\ PlaceOf(res, p.id) < PlaceOf(res, q.id)

\* Posts p and q are ones ranking monotonicity orders, p first: equal voteCount
\* and p created more recently, or equal age and p with the higher voteCount.
ShouldOutrank(p, q) ==
  LET vp == JoinedRow(p, votes, comments, user).voteCount
      vq == JoinedRow(q, votes, comments, user).voteCount
  IN /\ p.status = "live"
     /\ q.status = "live"
     /\ \/ vp = vq /\ p.createdAt > q.createdAt
        \/ p.createdAt = q.createdAt /\ vp > vq

\* C13 as stated.  Ranking monotonicity: of any two live posts with equal
\* voteCount the one created more recently has the strictly higher score and
\* is listed earlier by getFrontpagePosts, and of any two live posts of equal
\* age the one with the higher voteCount has the strictly higher score and
\* is listed earlier.
C13_RankingMonotone ==
  \A i, j \in DOMAIN posts :
    ShouldOutrank(posts[i], posts[j]) => Outranks(posts[i], posts[j])

\* C13, amended.  The same, for live posts whose createdAt is less than two
\* hours after now, so that hoursSince(createdAt, now) + 2 is positive.
C13_RankingMonotonePositiveAge ==
  \A i, j \in DOMAIN posts :
    ( /\ ShouldOutrank(posts[i], posts[j])
      /\ (Now - posts[i].createdAt) + RankOffset > 0
      /\ (Now - posts[j].createdAt) + RankOffset > 0 )
    => Outranks(posts[i], posts[j])

\* Two voted posts with one vote each, one older than now and one dated
\* after it, both less than two hours ahead.
C13_Witness ==
  \E i, j \in DOMAIN posts :
    /\ VotesOn(posts[i].id) = 1
    /\ VotesOn(posts[j].id) = 1
    /\ posts[i].createdAt > Now
    /\ posts[j].createdAt < Now
    /\ (Now - posts[i].createdAt) + RankOffset > 0

\* C17. Comment counts take live comments only.  For every post the
\* commentCount of getPost, and of every row of it in getUserPosts and
\* getFrontpagePosts, is the number of Comment rows with its postId and
\* status live, 0 when there are none; getTotalSubmissions(did).commentCount
\* is the number of live Comment rows of that author.
C17_LiveCommentsOnly ==
  /\ \A i \in DOMAIN posts :
       LET p == posts[i]
           n == LiveCommentsOn(p.id)
       IN /\ GetPost(posts, votes, comments, user, p.authorDid, p.rkey).commentCount
               = n
          /\ \A res \in GetFrontpagePosts(posts, votes, comments, user) :
               \A k \in DOMAIN res : res[k].id = p.id => res[k].commentCount = n
          /\ \A res \in GetUserPosts(posts, votes, comments, user, p.authorDid) :
               \A k \in DOMAIN res : res[k].id = p.id => res[k].commentCount = n
  /\ \A d \in DIDs :
       GetTotalSubmissions(posts, comments, d).commentCount
         = BagSum(comments, { [postId |-> id, authorDid |-> d, status |-> "live"] :
                                id \in 1..MaxPosts })

\* A live post with one live and one deleted comment.
C17_Witness ==
  \E i \in DOMAIN posts :
    /\ posts[i].status = "live"
    /\ LiveCommentsOn(posts[i].id) = 1
    /\ \E d \in DIDs :
         CopiesIn([postId |-> posts[i].id, authorDid |-> d, status |-> "deleted"],
                  comments) > 0

\* C18.  Each post is listed once: in every store state, also with several
\* PostVote rows of the session's user on one post, every result of
\* getFrontpagePosts holds each live post exactly once and every result of
\* getUserPosts(did) holds each live post of that author exactly once.
C18_ListedOnce ==
  \A i \in DOMAIN posts :
    posts[i].status = "live"
    => /\ \A res \in GetFrontpagePosts(posts, votes, comments, user) :
            Cardinality({ k \in DOMAIN res : res[k].id = posts[i].id }) = 1
       /\ \A res \in GetUserPosts(posts, votes, comments, user, posts[i].authorDid) :
            Cardinality({ k \in DOMAIN res : res[k].id = posts[i].id }) = 1

\* C14.  Identity and fetch failures are distinct and fail fast.  A failed
\* resolution throws the resolution error with neither getPds nor a request
\* having happened; a document without PDS throws the different "No PDS
\* found" error with no request issued; a non-success response to the one
\* describeRepo request throws the fetch error with the response's status
\* text and the requested URL; a list is returned only when all three steps
\* succeeded, and it is the list of the body's collections; there is never
\* a second request.
C14_DistinctFailFast ==
  dc.pc # "idle"
  => /\ Len(dc.requests) <= 1
     /\ dc.getPdsCalls <= 1
     /\ dc.pc = "resolve" => dc.getPdsCalls = 0 /\ dc.requests = << >>
     /\ (dc.pc = "done" /\ ~dc.identityResult.success)
          => /\ dc.error = [kind |-> "Could not resolve identity",
                            identifier |-> dc.identifier]
             /\ dc.getPdsCalls = 0
             /\ dc.requests = << >>
             /\ dc.result = NoResult
     /\ (dc.pc = "done" /\ dc.identityResult.success
          /\ dc.identityResult.didDocument.pds = "none")
          => /\ dc.error = [kind |-> "No PDS found for DID",
                            did |-> dc.identityResult.didDocument.id]
             /\ dc.requests = << >>
             /\ dc.result = NoResult
     /\ (dc.pc \in {"fetch", "json", "done"} /\ dc.identityResult.success
          /\ dc.identityResult.didDocument.pds # "none")
          => dc.requests
               = << DescribeRepoUrl(dc.identityResult.didDocument.pds,
                                    dc.identityResult.didDocument.id) >>
     /\ (dc.pc = "done" /\ dc.requests # << >>
          /\ ~dc.response.rejected /\ dc.response.status \notin 200..299)
          => /\ dc.error = [kind |-> "Failed to fetch collections",
                            statusText |-> dc.response.statusText,
                            url |-> dc.requests[1]]
             /\ dc.result = NoResult
     /\ dc.result # NoResult
          => /\ dc.pc = "done"
             /\ dc.error = NoError
             /\ dc.identityResult.success
             /\ dc.identityResult.didDocument.pds # "none"
             /\ Len(dc.requests) = 1
             /\ ~dc.response.rejected
             /\ dc.response.status \in 200..299
             /\ dc.body.kind = "collections"
             /\ Len(dc.result.items) = Len(dc.body.collections)
             /\ \A k \in DOMAIN dc.body.collections :
                  dc.result.items[k].text = dc.body.collections[k]
     /\ dc.pc = "done" => (dc.result = NoResult <=> dc.error # NoError)

\* A call that was answered 404 by the PDS and threw the fetch error.
C14_Witness ==
  /\ dc.pc = "done"
  /\ dc.error.kind = "Failed to fetch collections"
  /\ dc.response.status = 404
  /\ Len(dc.requests) = 1

\* Event e is applied: its offset is recorded once and its mutation is in
\* the committed Post table.
Applied(e) ==
  /\ OffsetCount(consumedOffsets, e.offset) = 1
  /\ IF e.type = "create"
     THEN /\ PostCount(posts, e.authorDid, e.rkey) = 1
          /\ \E i \in DOMAIN posts : RowOf(posts, i, e)
     ELSE \A i \in DOMAIN posts :
            posts[i].rkey = e.rkey => posts[i].status = "deleted"

\* The call of event e has just been rejected by a storage failure.
FailedOn(e) == pc = "done" /\ outcome.kind = "StorageError" /\ cur = e

\* The store had not consumed e when it was first invoked (a redelivery of
\* a consumed event is the case of C3).
NotConsumedWhenInvoked(e) == ~OffsetTaken(offsets0, e.offset)

\* C15 as stated.  A failed event is retried, not skipped: when the unit of
\* work of an event not yet consumed aborts on a storage failure its offset
\* is absent from ConsumedOffset afterwards, and with the consumer
\* re-invoking the event and the storage failing finitely often the event
\* is eventually applied, exactly once.
C15_RetriedUntilApplied ==
  /\ [](\A e \in RetryEvents :
          (FailedOn(e) /\ NotConsumedWhenInvoked(e))
          => ~OffsetTaken(consumedOffsets, e.offset))
  /\ \A e \in RetryEvents :
       (FailedOn(e) /\ NotConsumedWhenInvoked(e)) ~> Applied(e)
  /\ [](\A e \in RetryEvents : OffsetCount(consumedOffsets, e.offset) <= 1)

\* The store, when the failed event was first invoked, held neither its
\* offset nor, for a Create, its (authorDid, rkey).
FreshWhenInvoked(e) ==
  /\ NotConsumedWhenInvoked(e)
  /\ e.type = "create" => ~PostKeyTaken(posts0, e.authorDid, e.rkey)

\* C15, amended.  The same for an event that is not a Create of an
\* (authorDid, rkey) the store already held when the event was first
\* invoked: after the abort the tables are as they were, the offset is
\* absent, and the event is eventually applied by a call of its own, its
\* offset recorded once and, for a Create, its one Post row written.
C15_FreshEventRetriedUntilApplied ==
  /\ [](\A e \in RetryEvents :
          (FailedOn(e) /\ FreshWhenInvoked(e))
          => /\ ~OffsetTaken(consumedOffsets, e.offset)
             /\ posts = posts0
             /\ consumedOffsets = offsets0)
  /\ \A e \in RetryEvents :
       (FailedOn(e) /\ FreshWhenInvoked(e))
         ~> (cur = e /\ CallCommitted /\ Applied(e))
  /\ [](\A e \in RetryEvents :
          /\ OffsetCount(consumedOffsets, e.offset) <= 1
          /\ e.type = "create" => PostCount(posts, e.authorDid, e.rkey) <= 1)

\* A Create that failed twice in the storage has been applied by its third
\* invocation.
C15_Witness ==
  /\ failures = MaxFailures
  /\ cur.type = "create"
  /\ pc = "done"
  /\ outcome.kind = "ok"
  /\ FreshWhenInvoked(cur)
  /\ Applied(cur)
  /\ Len(posts) = 2

\* C16. The notification is ordered after the commit.  A call has issued a
\* webhook request only if it is a Create whose transaction has committed
\* the Post row (a row the store did not hold before the call) and its
\* ConsumedOffset row; a Create whose transaction aborted (duplicate key,
\* recorded offset, storage failure) has issued none; and a call issues at
\* most one, so that at most one is issued per committed Post.
C16_NotifyAfterCommit ==
  /\ webhookCalls <= 1
  /\ webhookCalls > 0
       => /\ cur.type = "create"
          /\ CallCommitted
          /\ ~PostKeyTaken(posts0, cur.authorDid, cur.rkey)
          /\ Len(posts) = Len(posts0) + 1
          /\ RowOf(posts, Len(posts), cur)
          /\ ~OffsetTaken(offsets0, cur.offset)
          /\ OffsetCount(consumedOffsets, cur.offset) = 1
  /\ (pc = "done" /\ outcome.at \in TxSteps) => webhookCalls = 0

\* A committed Create has issued its webhook request.
C16_Witness ==
  /\ pc = "done"
  /\ cur.type = "create"
  /\ webhookCalls = 1
  /\ outcome.kind = "ok"

\* C19.  Deleted is terminal: once a Post has status deleted, no step of any
\* later Create or Delete event, a Create of the same (authorDid, rkey) under
\* a fresh offset included, makes the row live again, adds a live row of
\* its key, or has getFrontpagePosts return it.
C19_DeletedIsTerminal ==
  [][ \A i \in DOMAIN posts :
        posts[i].status = "deleted"
        => /\ i \in DOMAIN posts'
           /\ posts'[i].id = posts[i].id
           /\ posts'[i].status = "deleted"
           /\ \A j \in DOMAIN posts' :
                ( posts'[j].authorDid = posts[i].authorDid
                  /\ posts'[j].rkey = posts[i].rkey )
                => posts'[j].status = "deleted"
           /\ LET rows == FrontpageRows(posts', votes', comments', user')
              IN \A k \in DOMAIN rows :
                   /\ rows[k].id # posts[i].id
                   /\ ~( rows[k].authorDid = posts[i].authorDid
                         /\ rows[k].rkey = posts[i].rkey ) ]_vars

\* A Create of a deleted post's key under a fresh offset has been rejected
\* and the post is still deleted.
C19_Witness ==
  /\ pc = "done"
  /\ cur.type = "create"
  /\ ~OffsetTaken(offsets0, cur.offset)
  /\ outcome.kind = "DuplicateKey"
  /\ \E i \in DOMAIN posts :
       /\ posts[i].authorDid = cur.authorDid
       /\ posts[i].rkey = cur.rkey
       /\ posts[i].status = "deleted"

\* C20. A Create rejected for a duplicate (authorDid, rkey) does not record
\* its offset.  During and after every call of unauthed_createPost for a key
\* the store held when the call began (the first delivery of the event and
\* each later one alike) the ConsumedOffset rows are those of before the
\* call, so an offset that was absent stays absent, and the call ends
\* rejected at its Post insert.
C20_RejectedCreateNotConsumed ==
  ( /\ cur.type = "create"
    /\ PostKeyTaken(posts0, cur.authorDid, cur.rkey) )
  => /\ consumedOffsets = offsets0
     /\ ~OffsetTaken(offsets0, cur.offset)
          => ~OffsetTaken(consumedOffsets, cur.offset)
     /\ pc \in {"create_insert_post", "done"}
     /\ pc = "done" => outcome.at = "create_insert_post"

\* A Create with a fresh offset has been rejected as a duplicate, and its
\* offset is absent from a ledger that holds others.
C20_Witness ==
  /\ pc = "done"
  /\ cur.type = "create"
  /\ outcome = [kind |-> "DuplicateKey", at |-> "create_insert_post"]
  /\ ~OffsetTaken(consumedOffsets, cur.offset)
  /\ BagCardinality(consumedOffsets) >= 2

====
